---------------------------- MODULE Spec2Model ----------------------------
(***************************************************************************)
(* BookRepositoryImpl (adapter/src/repository/book.rs): create, find_all   *)
(* and find_by_id, each one parameterized statement run on the pool `db`,  *)
(* with every storage failure mapped to AppError::SpecificOperationError.  *)
(*                                                                         *)
(* Callers are concurrent tasks.  A call is at one of four positions:      *)
(*   idle       no call in progress (the last return value is kept),       *)
(*   waiting    inside .execute/.fetch_*(pool), queued for a connection,   *)
(*   executing  connection checked out, statement sent to storage,         *)
(*   responded  storage has answered, the future has not resumed yet.      *)
(*                                                                         *)
(* The books table, its generated book_id and created_at columns, the      *)
(* BookRow -> Book mapping and the identifier wrapper live outside this    *)
(* file; they are modelled from the specification.  Storage is taken at    *)
(* its word: a statement that fails has no effect, and one that takes      *)
(* effect is answered.  The pool hands out connections in arrival order;   *)
(* its acquire timeout, a policy of the pool layer, is not modelled.       *)
(***************************************************************************)
EXTENDS Naturals, Sequences, FiniteSets

\* ------------------------------------------------------------- bounds
PoolSize == 1
MaxRows == 2

\* Two concurrent callers: a writer beside a reader or beside another writer,
\* and, on a pool of one connection, a caller that has to wait for the other.
Tasks == {"t1", "t2"}

\* ------------------------------------------------------------- data
\* Identifiers the storage may generate.
Uuids == {"u1", "u2", "u3"}

\* kernel::model::id::BookId wraps the storage identifier.
BookIdFrom(u) == <<"BookId", u>>
IntoUuid(id) == id[2]
BookIds == {BookIdFrom(u) : u \in Uuids}

\* CreateBook commands a caller may pass: one with four different texts
\* (so that a mix-up of two columns shows), one with empty texts.
Commands ==
  { [title |-> "Test Title", author |-> "Test Author",
     isbn |-> "Test ISBN", description |-> "Test Description"],
    [title |-> "", author |-> "Test Title", isbn |-> "", description |-> ""] }

\* Causes a storage call may fail with (sqlx::Error).
Causes == {"Database", "Io"}

NoOp == [name |-> "none"]
NoResp == [kind |-> "none"]
NoResult == [tag |-> "none"]

VARIABLES
  rows,       \* the books table, in insertion (heap) order
  free,       \* connections of the pool not checked out
  waitq,      \* tasks queued for a connection, first come first served
  pc,         \* pc[t]: position of task t
  op,         \* op[t]: the operation task t called last, with its argument
  held,       \* held[t]: connections task t holds
  issued,     \* issued[t]: statements task t has sent in its current call
  resp,       \* resp[t]: storage's answer to the statement of task t
  result,     \* result[t]: what the last call of task t returned
  okCreates   \* number of create calls that returned Ok(())

vars == <<rows, free, waitq, pc, op, held, issued, resp, result, okCreates>>

\* ------------------------------------------------------------- helpers
\* The arrangements of n rows.
Injections(n) ==
  {p \in [1..n -> 1..n] : \A i, j \in 1..n : i # j => p[i] # p[j]}

\* ------------------------------------------------------------- storage
\* Variant: title and author bound to each other's column.
InsertValuesSwapped(event) ==
  [title |-> event.author, author |-> event.title,
   isbn |-> event.isbn, description |-> event.description]

\* The statement of create: the four bind parameters, in column order.
InsertValues(event) ==
  [title |-> event.title, author |-> event.author,
   isbn |-> event.isbn, description |-> event.description]

\* Variant: a row with the same title is overwritten instead of a row added.
InsertRowUpsert(tbl, vals, u, now) ==
  IF \E i \in 1..Len(tbl) : tbl[i].title = vals.title
  THEN [i \in 1..Len(tbl) |->
          IF tbl[i].title = vals.title
          THEN [book_id |-> u, title |-> vals.title, author |-> vals.author,
                isbn |-> vals.isbn, description |-> vals.description,
                created_at |-> now]
          ELSE tbl[i]]
  ELSE Append(tbl, [book_id |-> u, title |-> vals.title, author |-> vals.author,
                    isbn |-> vals.isbn, description |-> vals.description,
                    created_at |-> now])

\* INSERT INTO books: one new row; book_id and created_at are column
\* defaults filled in by storage.
InsertRow(tbl, vals, u, now) ==
  Append(tbl, [book_id |-> u, title |-> vals.title, author |-> vals.author,
               isbn |-> vals.isbn, description |-> vals.description,
               created_at |-> now])

\* The created_at default: storage's current time.  Only the order of two
\* times is ever looked at (ORDER BY), so a time is modelled by its rank: a new
\* row gets the time of the latest row (the clock has not moved since) or the
\* next one (it has).
Now(tbl) ==
  IF Len(tbl) = 0 THEN {0}
  ELSE {tbl[Len(tbl)].created_at, tbl[Len(tbl)].created_at + 1}

\* The book_id default: an identifier no row has yet.  Identifiers are opaque
\* and only ever compared for equality, so which unused one storage generates
\* makes no difference; the model takes an arbitrary fixed one.
UsedUuids(tbl) == {tbl[i].book_id : i \in 1..Len(tbl)}
GenUuid(tbl) == CHOOSE u \in Uuids \ UsedUuids(tbl) : TRUE

\* The select list of both queries: created_at is not selected.
BookRow(r) ==
  [book_id |-> r.book_id, title |-> r.title, author |-> r.author,
   isbn |-> r.isbn, description |-> r.description]

\* Variant: ORDER BY created_at ASC.
OrderByCreatedAtAsc(tbl) ==
  { [i \in 1..Len(tbl) |-> BookRow(tbl[p[i]])] :
      p \in { q \in Injections(Len(tbl)) :
                \A i, j \in 1..Len(tbl) :
                   i < j => tbl[q[i]].created_at <= tbl[q[j]].created_at } }

\* ORDER BY created_at DESC: every arrangement of the table in which
\* created_at never increases.  Rows with equal created_at come in an order
\* the statement does not fix.
OrderByCreatedAtDesc(tbl) ==
  { [i \in 1..Len(tbl) |-> BookRow(tbl[p[i]])] :
      p \in { q \in Injections(Len(tbl)) :
                \A i, j \in 1..Len(tbl) :
                   i < j => tbl[q[i]].created_at >= tbl[q[j]].created_at } }

\* Variant: the WHERE clause left out.
WhereNothing(tbl, book_id) == tbl

\* WHERE book_id = $1, the BookId bound as the column's type.
WhereBookId(tbl, book_id) ==
  SelectSeq(tbl, LAMBDA r : r.book_id = IntoUuid(book_id))

SelectById(tbl, book_id) ==
  [i \in 1..Len(WhereBookId(tbl, book_id)) |-> BookRow(WhereBookId(tbl, book_id)[i])]

\* ------------------------------------------------------------- mapping
\* impl From<BookRow> for Book.
BookFrom(row) ==
  [id |-> BookIdFrom(row.book_id), title |-> row.title, author |-> row.author,
   isbn |-> row.isbn, description |-> row.description]

\* Variant: the cause replaced by a fixed one.
MapErrOpaque(cause) ==
  [tag |-> "Err", kind |-> "SpecificOperationError", cause |-> "Database"]

\* .map_err(AppError::SpecificOperationError)
MapErr(cause) == [tag |-> "Err", kind |-> "SpecificOperationError", cause |-> cause]

Ok(v) == [tag |-> "Ok", value |-> v]

None == <<>>
Some(v) == <<v>>

\* fetch_optional: the first row of the result set, if there is one.
FetchOptional(rs) == IF Len(rs) = 0 THEN None ELSE Some(rs[1])

\* Variant: the result of execute discarded.
createIgnoringError(r) == Ok("unit")

\* create: `?` on the mapped error, then Ok(()).
create(r) == IF r.kind = "err" THEN MapErr(r.cause) ELSE Ok("unit")

\* Variant: an empty result set reported as a failure.
find_all_nonempty(r) ==
  IF r.kind = "err" THEN MapErr(r.cause)
  ELSE IF Len(r.rows) = 0 THEN MapErr("RowNotFound")
  ELSE Ok([i \in 1..Len(r.rows) |-> BookFrom(r.rows[i])])

\* find_all: `?` on the mapped error, then every row through Book::from.
find_all(r) ==
  IF r.kind = "err" THEN MapErr(r.cause)
  ELSE Ok([i \in 1..Len(r.rows) |-> BookFrom(r.rows[i])])

\* Variant: fetch_one in place of fetch_optional.
find_by_id_fetch_one(r) ==
  IF r.kind = "err" THEN MapErr(r.cause)
  ELSE IF Len(r.rows) = 0 THEN MapErr("RowNotFound")
  ELSE Ok(Some(BookFrom(r.rows[1])))

\* find_by_id: `?` on the mapped error, then the optional row through Book::from.
find_by_id(r) ==
  IF r.kind = "err" THEN MapErr(r.cause)
  ELSE Ok(IF FetchOptional(r.rows) = None THEN None
          ELSE Some(BookFrom(FetchOptional(r.rows)[1])))

\* Variants: the connection kept when the call fails / when it succeeds.
HeldAfterReturnLeakOnErr(r) == IF r.kind = "err" THEN 1 ELSE 0
HeldAfterReturnLeakOnOk(r) == IF r.kind = "err" THEN 0 ELSE 1

\* The connection guard is dropped when the storage call's future completes,
\* whatever it completes with.
HeldAfterReturn(r) == 0

\* What find_all and find_by_id return when their statement runs on table tbl
\* and the storage call does not fail.
FindAllLists(tbl) ==
  {find_all([kind |-> "rows", rows |-> rs]).value : rs \in OrderByCreatedAtDesc(tbl)}

FindByIdOn(tbl, book_id) ==
  find_by_id([kind |-> "rows", rows |-> SelectById(tbl, book_id)])

\* ------------------------------------------------------------- state
Init ==
  /\ rows = <<>>
  /\ free = PoolSize
  /\ waitq = <<>>
  /\ pc = [t \in Tasks |-> "idle"]
  /\ op = [t \in Tasks |-> NoOp]
  /\ held = [t \in Tasks |-> 0]
  /\ issued = [t \in Tasks |-> 0]
  /\ resp = [t \in Tasks |-> NoResp]
  /\ result = [t \in Tasks |-> NoResult]
  /\ okCreates = 0

CreatesInFlight == {t \in Tasks : pc[t] # "idle" /\ op[t].name = "create"}

\* A caller invokes an operation: the storage call starts by asking the pool
\* for a connection.
Call(t, o) ==
  /\ pc[t] = "idle"
  /\ pc' = [pc EXCEPT ![t] = "waiting"]
  /\ op' = [op EXCEPT ![t] = o]
  /\ waitq' = Append(waitq, t)
  /\ issued' = [issued EXCEPT ![t] = 0]
  /\ resp' = [resp EXCEPT ![t] = NoResp]
  /\ result' = [result EXCEPT ![t] = NoResult]
  /\ UNCHANGED <<rows, free, held, okCreates>>

CallCreate(t) ==
  /\ Len(rows) + Cardinality(CreatesInFlight) < MaxRows
  /\ \E event \in Commands : Call(t, [name |-> "create", arg |-> event])

CallFindAll(t) == Call(t, [name |-> "find_all"])

CallFindById(t) ==
  \E book_id \in BookIds : Call(t, [name |-> "find_by_id", arg |-> book_id])

\* The pool hands a free connection to the longest-waiting task, which sends
\* its one statement.
Acquire(t) ==
  /\ pc[t] = "waiting"
  /\ waitq # <<>> /\ Head(waitq) = t
  /\ free > 0
  /\ free' = free - 1
  /\ held' = [held EXCEPT ![t] = held[t] + 1]
  /\ waitq' = Tail(waitq)
  /\ issued' = [issued EXCEPT ![t] = issued[t] + 1]
  /\ pc' = [pc EXCEPT ![t] = "executing"]
  /\ UNCHANGED <<rows, op, resp, result, okCreates>>

Respond(t, r) ==
  /\ pc' = [pc EXCEPT ![t] = "responded"]
  /\ resp' = [resp EXCEPT ![t] = r]
  /\ UNCHANGED <<free, waitq, op, held, issued, result, okCreates>>

\* Storage runs the INSERT: a fresh identifier, the current time.
ExecInsert(t) ==
  /\ pc[t] = "executing" /\ op[t].name = "create"
  /\ Uuids \ UsedUuids(rows) # {}
  /\ \E now \in Now(rows) :
       rows' = InsertRow(rows, InsertValues(op[t].arg), GenUuid(rows), now)
  /\ Respond(t, [kind |-> "done"])

ExecSelectAll(t) ==
  /\ pc[t] = "executing" /\ op[t].name = "find_all"
  /\ rows' = rows
  /\ \E rs \in OrderByCreatedAtDesc(rows) : Respond(t, [kind |-> "rows", rows |-> rs])

ExecSelectById(t) ==
  /\ pc[t] = "executing" /\ op[t].name = "find_by_id"
  /\ rows' = rows
  /\ Respond(t, [kind |-> "rows", rows |-> SelectById(rows, op[t].arg)])

\* The storage call fails; the statement has no effect.
ExecFail(t) ==
  /\ pc[t] = "executing"
  /\ rows' = rows
  /\ \E c \in Causes : Respond(t, [kind |-> "err", cause |-> c])

\* The future resumes: the connection goes back, the answer is mapped.
Return(t, v) ==
  /\ pc[t] = "responded"
  /\ pc' = [pc EXCEPT ![t] = "idle"]
  /\ result' = [result EXCEPT ![t] = v]
  /\ held' = [held EXCEPT ![t] = HeldAfterReturn(resp[t])]
  /\ free' = free + (held[t] - HeldAfterReturn(resp[t]))
  /\ UNCHANGED <<rows, waitq, op, issued, resp>>

ReturnCreate(t) ==
  /\ op[t].name = "create"
  /\ Return(t, create(resp[t]))
  /\ okCreates' = IF create(resp[t]).tag = "Ok" THEN okCreates + 1 ELSE okCreates

ReturnFindAll(t) ==
  /\ op[t].name = "find_all"
  /\ Return(t, find_all(resp[t]))
  /\ UNCHANGED okCreates

ReturnFindById(t) ==
  /\ op[t].name = "find_by_id"
  /\ Return(t, find_by_id(resp[t]))
  /\ UNCHANGED okCreates

Next ==
  \/ \E t \in Tasks : CallCreate(t)
  \/ \E t \in Tasks : CallFindAll(t)
  \/ \E t \in Tasks : CallFindById(t)
  \/ \E t \in Tasks : Acquire(t)
  \/ \E t \in Tasks : ExecInsert(t)
  \/ \E t \in Tasks : ExecSelectAll(t)
  \/ \E t \in Tasks : ExecSelectById(t)
  \/ \E t \in Tasks : ExecFail(t)
  \/ \E t \in Tasks : ReturnCreate(t)
  \/ \E t \in Tasks : ReturnFindAll(t)
  \/ \E t \in Tasks : ReturnFindById(t)

Spec == Init /\ [][Next]_vars

\* The runtime polls every ready future, storage answers every statement it is
\* sent, and the pool serves its waiters in arrival order.
Fairness ==
  \A t \in Tasks :
    /\ WF_vars(Acquire(t))
    /\ WF_vars(ExecInsert(t) \/ ExecSelectAll(t) \/ ExecSelectById(t) \/ ExecFail(t))
    /\ WF_vars(ReturnCreate(t) \/ ReturnFindAll(t) \/ ReturnFindById(t))

FairSpec == Init /\ [][Next]_vars /\ Fairness

\* ------------------------------------------------------------- properties
Range(s) == {s[i] : i \in 1..Len(s)}

RemoveAt(s, i) == SubSeq(s, 1, i - 1) \o SubSeq(s, i + 1, Len(s))

Completed(t, name) ==
  pc[t] = "idle" /\ op[t].name = name /\ result[t] # NoResult

AssignedUuids == UsedUuids(rows)

Fields(b) ==
  [title |-> b.title, author |-> b.author, isbn |-> b.isbn,
   description |-> b.description]

\* Position of the book with identifier id in list l (0 when absent).
PosOf(l, id) ==
  IF \E k \in 1..Len(l) : l[k].id = id
  THEN CHOOSE k \in 1..Len(l) : l[k].id = id
  ELSE 0

\* The INSERT of task t takes effect in this step.
InsertStep(t) ==
  /\ pc[t] = "executing" /\ op[t].name = "create"
  /\ pc'[t] = "responded" /\ resp'[t].kind = "done"

\* C1 (round trip): a create returns Ok(()) only when its INSERT took effect,
\* and the step in which it takes effect makes every find_all list exactly one
\* book longer: the books listed before, plus one whose title, author, isbn
\* and description are the command's.
RoundTripStep ==
  \A t \in Tasks :
    InsertStep(t) =>
      \A before \in FindAllLists(rows) : \A after \in FindAllLists(rows') :
        /\ Len(after) = Len(before) + 1
        /\ \E k \in 1..Len(after) :
             /\ Range(RemoveAt(after, k)) = Range(before)
             /\ after[k] \notin Range(before)
             /\ Fields(after[k]) = op[t].arg

CreateOkInserted ==
  \A t \in Tasks :
    (Completed(t, "create") /\ result[t].tag = "Ok") => resp[t].kind = "done"

C1_RoundTrip == [][RoundTripStep]_vars /\ []CreateOkInserted

C1_Witness ==
  /\ Len(rows) = 2
  /\ \A t \in Tasks : Completed(t, "create") /\ result[t] = Ok("unit")
  /\ op["t1"].arg # op["t2"].arg

\* C2 (identifier lookup): for every book b a find_all returned, find_by_id
\* with b's identifier returns Ok(Some(b)), field for field; and a find_by_id
\* that returned a book returned the one find_all lists under that identifier.
C2_IdentifierLookup ==
  /\ \A t \in Tasks :
       (Completed(t, "find_all") /\ result[t].tag = "Ok") =>
         \A k \in 1..Len(result[t].value) :
           FindByIdOn(rows, result[t].value[k].id) = Ok(Some(result[t].value[k]))
  /\ \A t \in Tasks :
       (Completed(t, "find_by_id") /\ result[t].tag = "Ok"
          /\ result[t].value # None) =>
         /\ result[t].value[1].id = op[t].arg
         /\ \A l \in FindAllLists(rows) : result[t].value[1] \in Range(l)

C2_Witness ==
  /\ Completed("t1", "find_all") /\ result["t1"].tag = "Ok"
  /\ Len(result["t1"].value) = 2
  /\ Completed("t2", "find_by_id")
  /\ result["t2"] = Ok(Some(result["t1"].value[2]))

\* C3 (ordering, as claimed): in every list find_all returned, a book created
\* after another one comes before it.
C3_OrderingAsClaimed ==
  \A t \in Tasks :
    (Completed(t, "find_all") /\ result[t].tag = "Ok") =>
      \A i, j \in 1..Len(rows) :
        (i < j /\ PosOf(result[t].value, BookIdFrom(rows[i].book_id)) > 0
               /\ PosOf(result[t].value, BookIdFrom(rows[j].book_id)) > 0) =>
          PosOf(result[t].value, BookIdFrom(rows[j].book_id))
            < PosOf(result[t].value, BookIdFrom(rows[i].book_id))

\* C3 (ordering, amended): in every list find_all returned, a book whose
\* creation time is strictly later than another one's comes before it; books
\* with equal creation time come in either order.
C3_Ordering ==
  \A t \in Tasks :
    (Completed(t, "find_all") /\ result[t].tag = "Ok") =>
      \A i, j \in 1..Len(rows) :
        (rows[i].created_at < rows[j].created_at
           /\ PosOf(result[t].value, BookIdFrom(rows[i].book_id)) > 0
           /\ PosOf(result[t].value, BookIdFrom(rows[j].book_id)) > 0) =>
          PosOf(result[t].value, BookIdFrom(rows[j].book_id))
            < PosOf(result[t].value, BookIdFrom(rows[i].book_id))

C3_Witness ==
  /\ Len(rows) = 2 /\ rows[1].created_at < rows[2].created_at
  /\ \E t \in Tasks :
       /\ Completed(t, "find_all") /\ result[t].tag = "Ok"
       /\ Len(result[t].value) = 2
       /\ result[t].value[1].id = BookIdFrom(rows[2].book_id)

\* C4 (absence): a find_by_id returns an error only when its storage call
\* failed, and with an identifier storage never assigned it returns Ok(None)
\* whenever the storage call did not fail.
C4_Absence ==
  \A t \in Tasks :
    Completed(t, "find_by_id") =>
      /\ result[t].tag = "Err" => resp[t].kind = "err"
      /\ (resp[t].kind # "err" /\ IntoUuid(op[t].arg) \notin AssignedUuids) =>
           result[t] = Ok(None)

C4_Witness ==
  \E t \in Tasks :
    /\ Completed(t, "find_by_id") /\ result[t] = Ok(None)
    /\ Len(rows) = 2 /\ IntoUuid(op[t].arg) \notin AssignedUuids

\* C5 (empty store): find_all on a table with no rows returns Ok with the
\* empty sequence unless the storage call itself failed.
C5_EmptyStore ==
  \A t \in Tasks :
    (Completed(t, "find_all") /\ rows = <<>> /\ resp[t].kind # "err") =>
      result[t] = Ok(<<>>)

C5_Witness ==
  \E t \in Tasks :
    Completed(t, "find_all") /\ rows = <<>> /\ result[t] = Ok(<<>>)

\* C6 (error translation): a call whose storage call failed returns
\* Err(SpecificOperationError) carrying exactly that cause, and no call ever
\* sends more than one statement.
C6_ErrorTranslation ==
  \A t \in Tasks :
    /\ issued[t] <= 1
    /\ (pc[t] = "idle" /\ resp[t].kind = "err") =>
         /\ result[t] = [tag |-> "Err", kind |-> "SpecificOperationError",
                         cause |-> resp[t].cause]
         /\ issued[t] = 1

C6_Witness ==
  /\ Completed("t1", "create") /\ result["t1"].tag = "Err"
  /\ result["t1"].cause = "Io"
  /\ Completed("t2", "find_by_id") /\ result["t2"].tag = "Err"
  /\ result["t2"].cause = "Database"

RECURSIVE SumHeld(_)
SumHeld(S) ==
  IF S = {} THEN 0
  ELSE LET t == CHOOSE x \in S : TRUE IN held[t] + SumHeld(S \ {t})

\* C7 (scoped connection use): a task holds at most one connection and only
\* while its statement is in progress, every connection is either free or
\* held, and when no call is in flight the whole pool is free.
C7_ScopedConnection ==
  /\ \A t \in Tasks :
       /\ held[t] <= 1
       /\ held[t] = 1 <=> pc[t] \in {"executing", "responded"}
  /\ free + SumHeld(Tasks) = PoolSize
  /\ (\A t \in Tasks : pc[t] = "idle") => free = PoolSize

C7_Witness ==
  /\ Completed("t1", "find_all") /\ result["t1"].tag = "Err"
  /\ Completed("t2", "create") /\ result["t2"].tag = "Ok"
  /\ free = PoolSize

AppendOnlyStep ==
  /\ Len(rows') >= Len(rows)
  /\ \A i \in 1..Len(rows) : rows'[i] = rows[i]
  /\ \A t \in Tasks :
       (pc[t] = "executing" /\ pc'[t] = "responded"
          /\ op[t].name \in {"find_all", "find_by_id"}) => rows' = rows

ReturnedBooksStay ==
  \A t \in Tasks :
    (Completed(t, "find_all") /\ result[t].tag = "Ok") =>
      \A k \in 1..Len(result[t].value) :
        /\ \A l \in FindAllLists(rows) : result[t].value[k] \in Range(l)
        /\ FindByIdOn(rows, result[t].value[k].id).value = Some(result[t].value[k])

C9_AppendOnly == [][AppendOnlyStep]_vars /\ []ReturnedBooksStay

C9_Witness ==
  /\ Len(rows) = 2
  /\ rows[1].title = rows[2].title
  /\ \E t \in Tasks :
       /\ Completed(t, "find_all") /\ result[t].tag = "Ok"
       /\ Len(result[t].value) = 1

=============================================================================
